---------------------------- MODULE Spec2Model ----------------------------
(***************************************************************************)
(* Covalence dashboard (src/app.py): one Streamlit script.  A run loads    *)
(* the sector reference table, stops if it is missing, reads the sidebar   *)
(* inputs, evaluates the deterministic calculation layer and renders one   *)
(* of two persona views.  Python floats are modelled as IEEE 754 binary64  *)
(* values: every arithmetic operator computes the exact result and rounds  *)
(* it to the nearest float, as the interpreter does.                       *)
(***************************************************************************)
EXTENDS Integers, Sequences, FiniteSets, TLC

VARIABLES
    pc,          \* position of the current script run
    cache,       \* st.cache_data entry of load_defaults: "empty", "None" or a table name
    frame,       \* locals of the running load_defaults call: files tried, df
    defaults,    \* module-level defaults: "unset", "None" or a table name
    errorShown,  \* TRUE once st.error has put the load error on the page
    inputs,      \* sidebar widget values of this run
    calc,        \* derived values of the calculation layer
    view         \* what the persona branch computed and rendered

vars == <<pc, cache, frame, defaults, errorShown, inputs, calc, view>>

-----------------------------------------------------------------------------
(* Bounds of the explored input grid *)

MaxIntensityHalves == 5
MaxPriceSteps == 3

-----------------------------------------------------------------------------
(* Python floats: IEEE 754 binary64 with round-to-nearest, ties-to-even.   *)
(* A float is <<sign, mantissa, exponent>> with value                       *)
(* sign * mantissa * 2^exponent: sign is 1 or -1, the mantissa is an odd    *)
(* natural number of at most 53 bits, and zero is <<1, <<>>, 0>>.  Every     *)
(* operation computes the exact result and rounds it once, as the hardware  *)
(* does.  Mantissas exceed the checker's integers, so a natural number is   *)
(* a little-endian sequence of limbs in 0..Base-1 without a high zero limb. *)
(* The exponent is at least -1074, so a subnormal result keeps fewer bits,  *)
(* and a result that rounds to 2^1024 or beyond is an infinity, written     *)
(* <<sign, <<1>>, 1024>>.  Zero carries a sign: -0.0 is <<-1, <<>>, 0>>.    *)
(* A first component of 0 marks what is not a number: NaN is <<0, <<>>, 2>> *)
(* and a raised exception or an unbound name has its own code.              *)

Base == 2^14

Min(x, y) == IF x <= y THEN x ELSE y
Max(x, y) == IF x >= y THEN x ELSE y

RECURSIVE BTrim(_)
BTrim(a) ==
    IF a = <<>> THEN <<>>
    ELSE IF a[Len(a)] = 0 THEN BTrim(SubSeq(a, 1, Len(a) - 1))
    ELSE a

RECURSIVE BFromInt(_)
BFromInt(n) == IF n = 0 THEN <<>> ELSE <<n % Base>> \o BFromInt(n \div Base)

RECURSIVE BAddC(_, _, _)
BAddC(a, b, c) ==
    IF b = <<>> /\ c = 0 THEN a
    ELSE IF a = <<>> /\ c = 0 THEN b
    ELSE IF a = <<>> /\ b = <<>> THEN <<c>>
    ELSE LET x == IF a = <<>> THEN 0 ELSE Head(a)
             y == IF b = <<>> THEN 0 ELSE Head(b)
             s == x + y + c
         IN  <<s % Base>> \o BAddC(IF a = <<>> THEN <<>> ELSE Tail(a),
                                   IF b = <<>> THEN <<>> ELSE Tail(b),
                                   s \div Base)

BAdd(a, b) == BAddC(a, b, 0)

\* a - b - c for a >= b + c, before trimming.
RECURSIVE BSubB(_, _, _)
BSubB(a, b, c) ==
    IF a = <<>> THEN <<>>
    ELSE IF b = <<>> /\ c = 0 THEN a
    ELSE LET y == IF b = <<>> THEN 0 ELSE Head(b)
             d == Head(a) - y - c
         IN  <<IF d < 0 THEN d + Base ELSE d>>
                 \o BSubB(Tail(a), IF b = <<>> THEN <<>> ELSE Tail(b),
                          IF d < 0 THEN 1 ELSE 0)

BSub(a, b) == BTrim(BSubB(a, b, 0))

RECURSIVE BCmpFrom(_, _, _)
BCmpFrom(a, b, i) ==
    IF i = 0 THEN 0
    ELSE IF a[i] > b[i] THEN 1
    ELSE IF a[i] < b[i] THEN -1
    ELSE BCmpFrom(a, b, i - 1)

\* -1, 0 or 1 as a is below, equal to or above b.
BCmp(a, b) ==
    IF Len(a) > Len(b) THEN 1
    ELSE IF Len(a) < Len(b) THEN -1
    ELSE BCmpFrom(a, b, Len(a))

RECURSIVE BMulC(_, _, _)
BMulC(a, k, c) ==
    IF a = <<>> THEN (IF c = 0 THEN <<>> ELSE <<c>>)
    ELSE LET p == Head(a) * k + c
         IN  <<p % Base>> \o BMulC(Tail(a), k, p \div Base)

\* a * k for one limb k.
BMulSmall(a, k) == IF k = 0 THEN <<>> ELSE IF k = 1 THEN a ELSE BMulC(a, k, 0)

\* a * Base
BShiftLimb(a) == IF a = <<>> THEN <<>> ELSE <<0>> \o a

RECURSIVE BMul(_, _)
BMul(a, b) ==
    IF a = <<>> \/ b = <<>> THEN <<>>
    ELSE BAdd(BMulSmall(a, Head(b)), BShiftLimb(BMul(a, Tail(b))))

\* One step of short division by the limb k: hi is <<quotient, remainder>>
\* of the higher limbs, low the next limb down.
BDivStep(hi, low, k) ==
    <<<<(hi[2] * Base + low) \div k>> \o hi[1], (hi[2] * Base + low) % k>>

\* <<quotient limbs (untrimmed), remainder>> of a by one limb k > 0.
RECURSIVE BDivC(_, _)
BDivC(a, k) ==
    IF a = <<>> THEN <<<<>>, 0>> ELSE BDivStep(BDivC(Tail(a), k), Head(a), k)

BDivOut(qr) == <<BTrim(qr[1]), BFromInt(qr[2])>>

BDivSmall(a, k) == BDivOut(BDivC(a, k))

RECURSIVE Zeros(_)
Zeros(n) == IF n = 0 THEN <<>> ELSE <<0>> \o Zeros(n - 1)

\* a * 2^n
BShl(a, n) ==
    IF a = <<>> THEN <<>> ELSE Zeros(n \div 14) \o BMulSmall(a, 2^(n % 14))

\* floor(a / 2^n) for n below the limb width
BShrBits(a, n) == IF n = 0 THEN a ELSE BDivSmall(a, 2^n)[1]

\* floor(a / 2^n)
BShr(a, n) ==
    IF n \div 14 >= Len(a) THEN <<>>
    ELSE BShrBits(SubSeq(a, n \div 14 + 1, Len(a)), n % 14)

RECURSIVE IntBitLen(_)
IntBitLen(x) == IF x = 0 THEN 0 ELSE 1 + IntBitLen(x \div 2)

BBitLen(a) == IF a = <<>> THEN 0 ELSE 14 * (Len(a) - 1) + IntBitLen(a[Len(a)])

RECURSIVE IntTrailingZeros(_)
IntTrailingZeros(x) == IF x % 2 = 1 THEN 0 ELSE 1 + IntTrailingZeros(x \div 2)

\* Number of low zero bits of a > 0.
RECURSIVE BTrailingZeros(_)
BTrailingZeros(a) ==
    IF Head(a) = 0 THEN 14 + BTrailingZeros(Tail(a))
    ELSE IntTrailingZeros(Head(a))

\* Largest d with d * v <= cur, starting from an estimate d that is not
\* below it.
RECURSIVE BFixDigit(_, _, _)
BFixDigit(cur, v, d) ==
    IF BCmp(BMulSmall(v, d), cur) > 0 THEN BFixDigit(cur, v, d - 1) ELSE d

\* The two leading limbs of cur, seen from the top limb n of the divisor.
BTop(cur, n) == (IF Len(cur) > n THEN cur[n + 1] ELSE 0) * Base + cur[n]

\* floor(cur / v) for cur < v * Base, estimated from the leading limbs.
BDigit(cur, v) ==
    IF Len(cur) < Len(v) THEN 0
    ELSE BFixDigit(cur, v, Min(Base - 1, BTop(cur, Len(v)) \div v[Len(v)]))

\* One step of long division by v: the quotient limbs so far qhi, the
\* running remainder cur and its quotient digit d.
BLongOut(qhi, cur, v, d) == <<<<d>> \o qhi, BSub(cur, BMulSmall(v, d))>>

BLongDigit(qhi, cur, v) == BLongOut(qhi, cur, v, BDigit(cur, v))

BLongStep(hi, low, v) == BLongDigit(hi[1], BTrim(<<low>> \o hi[2]), v)

\* Schoolbook long division, most significant limb first.
RECURSIVE BLong(_, _)
BLong(a, v) ==
    IF a = <<>> THEN <<<<>>, <<>>>> ELSE BLongStep(BLong(Tail(a), v), Head(a), v)

BLongTrim(qr) == <<BTrim(qr[1]), qr[2]>>

\* The divisor shifted so that its top limb has its high bit set.
BLongShifted(a, b, sh) == BLongTrim(BLong(BShl(a, sh), BShl(b, sh)))

\* <<floor(a / b), r>> for b > 0, where r = <<>> exactly when b divides a.
BDivMod(a, b) ==
    IF Len(b) = 1 THEN BDivSmall(a, b[1])
    ELSE BLongShifted(a, b, 14 - IntBitLen(b[Len(b)]))

\* The exponent of the smallest subnormal, and the first exponent past the
\* largest float.
EMin == -1074
EMax == 1024

Zero == <<1, <<>>, 0>>
SignedZero(sign) == <<sign, <<>>, 0>>
Infinity(sign) == <<sign, <<1>>, EMax>>
NaN == <<0, <<>>, 2>>
ZeroDivisionError == <<0, <<>>, 1>>

IsNaN(a) == a = NaN
\* A raised exception or an unbound name, which no operator computes with.
IsError(a) == a[1] = 0 /\ a # NaN
IsInf(a) == a[1] # 0 /\ a[3] = EMax
IsZero(a) == a[1] # 0 /\ a[2] = <<>>

\* sign * m * 2^e with the z low zero bits of m moved into the exponent.
FloatShift(sign, m, e, z) == <<sign, BShr(m, z), e + z>>

\* The float sign * m * 2^e for a mantissa m of at most 53 bits and
\* e >= EMin; a value of 2^EMax or more overflows to infinity.
Float(sign, m, e) ==
    IF m = <<>> THEN SignedZero(sign)
    ELSE IF BBitLen(m) + e > EMax THEN Infinity(sign)
    ELSE FloatShift(sign, m, e, BTrailingZeros(m))

\* q is m without its low bits; c compares the dropped bits with one half.
RoundUp(sign, q, e, sticky, c) ==
    Float(sign,
          IF c > 0 \/ (c = 0 /\ (sticky \/ (q # <<>> /\ q[1] % 2 = 1)))
          THEN BAdd(q, <<1>>) ELSE q,
          e)

RoundQuotient(sign, m, e, sticky, sh, q) ==
    RoundUp(sign, q, e + sh, sticky,
            BCmp(BShl(m, 1), BShl(BAdd(BShl(q, 1), <<1>>), sh)))

\* sh is the number of low bits of m to drop; when it exceeds the length
\* of m by two the value is below half the smallest subnormal.
RoundShift(sign, m, e, sticky, sh) ==
    IF sh <= 0 THEN Float(sign, m, e)
    ELSE IF sh > BBitLen(m) + 1 THEN SignedZero(sign)
    ELSE RoundQuotient(sign, m, e, sticky, sh, BShr(m, sh))

\* Drop the bits beyond 53 and, for a subnormal result, the bits below
\* 2^EMin.
RoundBits(sign, m, e, sticky) ==
    RoundShift(sign, m, e, sticky, Max(BBitLen(m) - 53, EMin - e))

\* An exact m, its z low zero bits moved into the exponent first.
RoundOdd(sign, m, e, z) == RoundBits(sign, BShr(m, z), e + z, FALSE)

\* Round sign * (m + f) * 2^e to the nearest float, ties to even;
\* f is 0 unless sticky, and then 0 < f < 1 and m has over 54 bits.
Round(sign, m, e, sticky) ==
    IF m = <<>> THEN SignedZero(sign)
    ELSE IF sticky THEN RoundBits(sign, m, e, TRUE)
    ELSE RoundOdd(sign, m, e, BTrailingZeros(m))

\* The float of an integer.
R(k) == IF k < 0 THEN Float(-1, BFromInt(-k), 0) ELSE Float(1, BFromInt(k), 0)

RNeg(a) == IF a[1] = 0 THEN a ELSE <<-a[1], a[2], a[3]>>

\* sa * x * 2^e + sb * y * 2^e for opposite signs, c comparing x with y.
RAddOpposite(sa, x, sb, y, e, c) ==
    IF c = 0 THEN Zero
    ELSE IF c > 0 THEN Round(sa, BSub(x, y), e, FALSE)
    ELSE Round(sb, BSub(y, x), e, FALSE)

RAddAligned(sa, x, sb, y, e) ==
    IF sa = sb THEN Round(sa, BAdd(x, y), e, FALSE)
    ELSE RAddOpposite(sa, x, sb, y, e, BCmp(x, y))

RAddAt(a, b, e) ==
    RAddAligned(a[1], BShl(a[2], a[3] - e), b[1], BShl(b[2], b[3] - e), e)

\* ta and tb are the positions of the leading bits.  A term more than 57
\* bits below the other is less than a quarter of its last place and
\* leaves it unchanged.
RAddTop(a, b, ta, tb) ==
    IF ta - tb > 57 THEN a
    ELSE IF tb - ta > 57 THEN b
    ELSE RAddAt(a, b, Min(a[3], b[3]))

RAdd(a, b) ==
    IF IsError(a) THEN a
    ELSE IF IsError(b) THEN b
    ELSE IF IsNaN(a) \/ IsNaN(b) THEN NaN
    ELSE IF IsInf(a) THEN (IF IsInf(b) /\ a[1] # b[1] THEN NaN ELSE a)
    ELSE IF IsInf(b) THEN b
    ELSE IF IsZero(a) /\ IsZero(b) THEN SignedZero(IF a[1] = b[1] THEN a[1] ELSE 1)
    ELSE IF IsZero(a) THEN b
    ELSE IF IsZero(b) THEN a
    ELSE RAddTop(a, b, BBitLen(a[2]) + a[3], BBitLen(b[2]) + b[3])

RSub(a, b) == RAdd(a, RNeg(b))

RMul(a, b) ==
    IF IsError(a) THEN a
    ELSE IF IsError(b) THEN b
    ELSE IF IsNaN(a) \/ IsNaN(b) THEN NaN
    ELSE IF IsInf(a) \/ IsInf(b)
         THEN (IF IsZero(a) \/ IsZero(b) THEN NaN ELSE Infinity(a[1] * b[1]))
    ELSE IF IsZero(a) \/ IsZero(b) THEN SignedZero(a[1] * b[1])
    ELSE Round(a[1] * b[1], BMul(a[2], b[2]), a[3] + b[3], FALSE)

RDivOut(sign, qr, e) == Round(sign, qr[1], e, qr[2] # <<>>)

\* The dividend shifted left by k bits, for a quotient of at least 55 bits.
RDivShifted(a, b, k) ==
    RDivOut(a[1] * b[1], BDivMod(BShl(a[2], k), b[2]), a[3] - b[3] - k)

\* Python's true division: a zero divisor raises, any other quotient is
\* rounded to the nearest float.
RDiv(a, b) ==
    IF IsError(a) THEN a
    ELSE IF IsError(b) THEN b
    ELSE IF IsZero(b) THEN ZeroDivisionError
    ELSE IF IsNaN(a) \/ IsNaN(b) THEN NaN
    ELSE IF IsInf(a) THEN (IF IsInf(b) THEN NaN ELSE Infinity(a[1] * b[1]))
    ELSE IF IsInf(b) \/ IsZero(a) THEN SignedZero(a[1] * b[1])
    ELSE IF b[2] = <<1>> THEN Round(a[1] * b[1], a[2], a[3] - b[3], FALSE)
    ELSE RDivShifted(a, b, Max(0, 55 + BBitLen(b[2]) - BBitLen(a[2])))

\* The float nearest to n / d, as a decimal literal or a widget value is read.
Rat(n, d) == RDiv(R(n), R(d))

\* -1, 0 or 1 as float a is below, equal to or above float b.
RCmpAt(a, b, ta, tb, e) ==
    IF ta > tb THEN 1
    ELSE IF ta < tb THEN -1
    ELSE BCmp(BShl(a[2], a[3] - e), BShl(b[2], b[3] - e))

RCmpMag(a, b) ==
    RCmpAt(a, b, BBitLen(a[2]) + a[3], BBitLen(b[2]) + b[3], Min(a[3], b[3]))

RSign(a) == IF a[2] = <<>> THEN 0 ELSE a[1]

RCmp(a, b) ==
    IF RSign(a) # RSign(b) THEN (IF RSign(a) > RSign(b) THEN 1 ELSE -1)
    ELSE IF RSign(a) = 0 THEN 0
    ELSE RSign(a) * RCmpMag(a, b)

\* Comparisons; one with NaN is false.
REq(a, b) == a[1] # 0 /\ b[1] # 0 /\ RCmp(a, b) = 0
RLe(a, b) == a[1] # 0 /\ b[1] # 0 /\ RCmp(a, b) <= 0
RLt(a, b) == a[1] # 0 /\ b[1] # 0 /\ RCmp(a, b) < 0

RMax(a, b) == IF RLt(a, b) THEN b ELSE a
RMin(a, b) == IF RLt(b, a) THEN b ELSE a

\* The float 2^k, for EMin <= k < EMax.
TwoTo(k) == <<1, <<1>>, k>>

-----------------------------------------------------------------------------
(* Deterministic calculation layer, src/app.py lines 133-191 and 470 *)

\* Variant: the floor at zero left out.
excess_intensity_unfloored(user_intensity, eu_benchmark) ==
    RSub(user_intensity, eu_benchmark)

excess_intensity(user_intensity, eu_benchmark) ==
    RMax(RSub(user_intensity, eu_benchmark), Zero)

cbam_cost_per_tonne_calc(excess, ets_price) == RMul(excess, ets_price)

total_cbam_bill(cost_per_tonne, export_volume_tonnes) ==
    RMul(cost_per_tonne, export_volume_tonnes)

total_cbam_bill_inr(bill, EUR_to_INR_rate) == RMul(bill, EUR_to_INR_rate)

\* Variant: the division without its guard.
cbam_hit_pct_of_price_unguarded(cost_per_tonne, selling_price) ==
    RMul(RDiv(cost_per_tonne, selling_price), R(100))

cbam_hit_pct_of_price(cost_per_tonne, selling_price) ==
    IF RLt(Zero, selling_price)
    THEN RMul(RDiv(cost_per_tonne, selling_price), R(100))
    ELSE Zero

post_margin_pct(pre_margin_pct, hit) == RMax(RSub(pre_margin_pct, hit), Zero)

margin_delta(post, pre_margin_pct) == RSub(post, pre_margin_pct)

\* Variant: the first threshold tested with < instead of <=.
competitiveness_strict(hit) ==
    IF RLt(hit, R(5)) THEN "GREEN - Broadly Aligned"
    ELSE IF RLe(hit, R(15)) THEN "YELLOW - Cost Pressure"
    ELSE "RED - High Substitution Risk"

competitiveness(hit) ==
    IF RLe(hit, R(5)) THEN "GREEN - Broadly Aligned"
    ELSE IF RLe(hit, R(15)) THEN "YELLOW - Cost Pressure"
    ELSE "RED - High Substitution Risk"

competitiveness_class(hit) ==
    IF RLe(hit, R(5)) THEN "status-green"
    ELSE IF RLe(hit, R(15)) THEN "status-yellow"
    ELSE "status-red"

reduced_intensity(user_intensity, reduction_pct) ==
    RMul(user_intensity, RSub(R(1), RDiv(R(reduction_pct), R(100))))

excess_after(reduced, eu_benchmark) == RMax(RSub(reduced, eu_benchmark), Zero)

cbam_after_per_tonne(excess, ets_price) == RMul(excess, ets_price)

total_cbam_after(after_per_tonne, export_volume_tonnes) ==
    RMul(after_per_tonne, export_volume_tonnes)

cbam_savings_total(bill, after) == RMax(RSub(bill, after), Zero)

cbam_savings_total_inr(savings, EUR_to_INR_rate) == RMul(savings, EUR_to_INR_rate)

total_transition_capex_million_eur(capex_per_pct, reduction_pct) ==
    RMul(capex_per_pct, R(reduction_pct))

total_transition_capex_eur(capex_million) == RMul(capex_million, R(1000000))

total_transition_capex_inr(capex_eur, EUR_to_INR_rate) ==
    RMul(capex_eur, EUR_to_INR_rate)

annual_finance_relief_estimate_eur(slb_rate_discount_bps, capex_eur) ==
    RMul(RDiv(R(slb_rate_discount_bps), R(10000)), capex_eur)

annual_finance_relief_estimate_inr(relief, EUR_to_INR_rate) ==
    RMul(relief, EUR_to_INR_rate)

\* Variant: the margin erosion weighted 10 instead of 5.
score_raw_heavy(hit, pre_margin_pct, post) ==
    RAdd(RMul(hit, R(2)), RMul(RSub(pre_margin_pct, post), R(10)))

score_raw(hit, pre_margin_pct, post) ==
    RAdd(RMul(hit, R(2)), RMul(RSub(pre_margin_pct, post), R(5)))

readiness_score(score) == RMax(RMin(RSub(R(100), score), R(100)), Zero)

\* Variant: the capex spread over the months of the tenor.
annual_debt_service_eur_monthly(capex_eur, deal_tenor_years) ==
    IF deal_tenor_years > 0 THEN RDiv(capex_eur, R(12 * deal_tenor_years)) ELSE Zero

annual_debt_service_eur(capex_eur, deal_tenor_years) ==
    IF deal_tenor_years > 0 THEN RDiv(capex_eur, R(deal_tenor_years)) ELSE Zero

annual_debt_service_inr(debt_service, EUR_to_INR_rate) ==
    RMul(debt_service, EUR_to_INR_rate)

annual_cash_flow_gain_eur(savings, relief) == RAdd(savings, relief)

annual_cash_flow_gain_inr(gain, EUR_to_INR_rate) == RMul(gain, EUR_to_INR_rate)

\* Variant: the division without its guard.
coverage_ratio_unguarded(gain, debt_service) == RDiv(gain, debt_service)

coverage_ratio(gain, debt_service) ==
    IF RLt(Zero, debt_service) THEN RDiv(gain, debt_service) ELSE R(999)

\* Variant: the division without its guard.
payback_period_unguarded(capex_eur, gain) == RDiv(capex_eur, gain)

payback_period(capex_eur, gain) ==
    IF RLt(Zero, gain) THEN RDiv(capex_eur, gain) ELSE Zero

(* The layer in the source's sections.  Each section takes the names     *)
(* bound so far (c) and returns them with its own.                        *)

\* lines 139-147: benchmark values of the reference row, CBAM cost driver
CostDriver(row, in) ==
    LET ei   == excess_intensity(in.user_intensity, row.eu_benchmark)
        cpt  == cbam_cost_per_tonne_calc(ei, row.ets_price)
        bill == total_cbam_bill(cpt, in.export_volume_tonnes)
    IN  [ computed |-> TRUE,
          eu_benchmark |-> row.eu_benchmark,
          ets_price |-> row.ets_price,
          pre_margin_pct |-> row.pre_margin_pct,
          excess_intensity |-> ei,
          cbam_cost_per_tonne_calc |-> cpt,
          total_cbam_bill |-> bill,
          total_cbam_bill_inr |-> total_cbam_bill_inr(bill, in.EUR_to_INR_rate) ]

\* lines 149-162: margin hit
MarginHit(in, c) ==
    LET hit  == cbam_hit_pct_of_price(c.cbam_cost_per_tonne_calc, in.selling_price)
        post == post_margin_pct(c.pre_margin_pct, hit)
    IN  c @@ [ cbam_hit_pct_of_price |-> hit,
               post_margin_pct |-> post,
               margin_delta |-> margin_delta(post, c.pre_margin_pct),
               competitiveness |-> competitiveness(hit),
               competitiveness_class |-> competitiveness_class(hit) ]

\* lines 164-171: after decarbonisation scenario
Scenario(in, c) ==
    LET red   == reduced_intensity(in.user_intensity, in.reduction_pct)
        ea    == excess_after(red, c.eu_benchmark)
        apt   == cbam_after_per_tonne(ea, c.ets_price)
        after == total_cbam_after(apt, in.export_volume_tonnes)
        sav   == cbam_savings_total(c.total_cbam_bill, after)
    IN  c @@ [ reduced_intensity |-> red,
               excess_after |-> ea,
               cbam_after_per_tonne |-> apt,
               total_cbam_after |-> after,
               cbam_savings_total |-> sav,
               cbam_savings_total_inr |->
                   cbam_savings_total_inr(sav, in.EUR_to_INR_rate) ]

\* lines 173-178: finance sizing
FinanceSizing(in, c) ==
    LET capm == total_transition_capex_million_eur(
                    in.capex_per_pct_reduction_million_eur, in.reduction_pct)
        cap  == total_transition_capex_eur(capm)
        rel  == annual_finance_relief_estimate_eur(in.slb_rate_discount_bps, cap)
    IN  c @@ [ total_transition_capex_million_eur |-> capm,
               total_transition_capex_eur |-> cap,
               total_transition_capex_inr |->
                   total_transition_capex_inr(cap, in.EUR_to_INR_rate),
               annual_finance_relief_estimate_eur |-> rel,
               annual_finance_relief_estimate_inr |->
                   annual_finance_relief_estimate_inr(rel, in.EUR_to_INR_rate) ]

\* lines 180-184: readiness score
Readiness(c) ==
    LET raw == score_raw(c.cbam_hit_pct_of_price, c.pre_margin_pct,
                         c.post_margin_pct)
    IN  c @@ [ score_raw |-> raw, readiness_score |-> readiness_score(raw) ]

\* lines 186-191: banker-specific calculations
Banker(in, c) ==
    LET ds   == annual_debt_service_eur(c.total_transition_capex_eur,
                                        in.deal_tenor_years)
        gain == annual_cash_flow_gain_eur(c.cbam_savings_total,
                                          c.annual_finance_relief_estimate_eur)
    IN  c @@ [ annual_debt_service_eur |-> ds,
               annual_debt_service_inr |->
                   annual_debt_service_inr(ds, in.EUR_to_INR_rate),
               annual_cash_flow_gain_eur |-> gain,
               annual_cash_flow_gain_inr |->
                   annual_cash_flow_gain_inr(gain, in.EUR_to_INR_rate),
               coverage_ratio |-> coverage_ratio(gain, ds) ]

(* The whole layer, evaluated in source order on a reference row and the  *)
(* sidebar inputs.                                                         *)
CoreCalculations(row, in) ==
    Banker(in, Readiness(FinanceSizing(in, Scenario(in, MarginHit(in,
        CostDriver(row, in))))))

-----------------------------------------------------------------------------
(* Reference data: what a read of a csv file can produce *)

PrimaryFile == "sector_defaults.csv"
FallbackFile == "sectors_defaults.csv"

Sectors == {"steel", "aluminium"}

\* Reference tables a csv file may hold, keyed by sector once set_index ran.
\* "full" has both sectors; "steel_only" lacks the aluminium row and carries
\* a loss-making (negative) typical margin; "steel_wide" carries a margin of
\* 2^53 + 6, which float(row[...]) accepts like any other number and near
\* which floats are 2 apart.
Table(name) ==
    IF name = "full"
    THEN [s \in Sectors |->
            IF s = "steel"
            THEN [eu_benchmark |-> R(1), ets_price |-> R(80), pre_margin_pct |-> R(10)]
            ELSE [eu_benchmark |-> Rat(1, 2), ets_price |-> R(80), pre_margin_pct |-> R(20)]]
    ELSE IF name = "steel_only"
    THEN [s \in {"steel"} |->
            [eu_benchmark |-> R(1), ets_price |-> R(80), pre_margin_pct |-> R(-5)]]
    ELSE [s \in {"steel"} |->
            [eu_benchmark |-> R(1), ets_price |-> R(80),
             pre_margin_pct |-> RAdd(TwoTo(53), R(6))]]

TableNames == {"full", "steel_only", "steel_wide"}

\* Outcomes of pd.read_csv on one file name: the file is absent, it cannot
\* be parsed, it parses but has no "sector" column, or it holds a table.
ReadOutcomes == {"FileNotFoundError", "ParserError", "no_sector_column"} \cup TableNames

-----------------------------------------------------------------------------
(* Sidebar input grid.  The widgets of intensity, volume, price and capex *)
(* have a minimum of 0.0 and no maximum, so next to values of ordinary    *)
(* magnitude the grid holds one near the top of the float range:          *)
(* 2^1023 = 8.98846567431158e+307 and 2^1020 = 1.1235582092889474e+307.   *)

Intensities == {Rat(k, 2) : k \in 0..MaxIntensityHalves} \cup {TwoTo(1023)}
ExportVolumes == {R(0), R(10000), R(39000), TwoTo(1020)}
SellingPrices == {R(400 * k) : k \in 0..MaxPriceSteps}
Reductions == {0, 15, 50}
CapexPerPct == {R(0), Rat(1, 2), R(8), TwoTo(1023)}
IncentiveBps == {0, 75}
Tenors == {1, 7, 20}
FxRates == {R(70), Rat(177, 2)}

\* A name no statement of the run has bound.
Unbound == <<0, <<>>, 0>>

\* tried: file names passed to pd.read_csv so far; df: the frame read;
\* exc: the exception of the last failed statement; result: the return value.
NoFrame == [tried |-> <<>>, df |-> "unset", exc |-> "", result |-> "unset"]

NoInputs ==
    [ sector |-> "", user_intensity |-> Unbound, export_volume_tonnes |-> Unbound,
      selling_price |-> Unbound, reduction_pct |-> 0,
      capex_per_pct_reduction_million_eur |-> Unbound,
      slb_rate_discount_bps |-> 0, deal_tenor_years |-> 0,
      EUR_to_INR_rate |-> Unbound ]

NoCalc == [computed |-> FALSE]

NoView ==
    [ persona |-> "", readiness_subtext |-> "", margin_delta_class |-> "",
      coverage_class |-> "", payback_period |-> Unbound, conclusion |-> "" ]

-----------------------------------------------------------------------------
Init ==
    /\ pc = "start"
    /\ cache = "empty"
    /\ frame = NoFrame
    /\ defaults = "unset"
    /\ errorShown = FALSE
    /\ inputs = NoInputs
    /\ calc = NoCalc
    /\ view = NoView

-----------------------------------------------------------------------------
(* load_defaults, lines 9-27 *)

\* Line 9: st.cache_data returns the stored value of an earlier call
\* without running the function body.
CacheHit ==
    /\ pc = "start"
    /\ cache # "empty"
    /\ defaults' = cache
    /\ errorShown' = (cache = "None")
    /\ pc' = "check"
    /\ UNCHANGED <<cache, frame, inputs, calc, view>>

\* Variant: a missing primary file reported at once, without the fallback.
ReadPrimary_NoFallback ==
    /\ pc = "start"
    /\ cache = "empty"
    /\ \E o \in ReadOutcomes :
          /\ frame' = [frame EXCEPT !.tried = Append(@, PrimaryFile),
                                    !.df = IF o \in {"FileNotFoundError", "ParserError"}
                                           THEN "unset" ELSE o,
                                    !.exc = IF o \in {"FileNotFoundError", "ParserError"}
                                            THEN o ELSE "",
                                    !.result = IF o = "FileNotFoundError"
                                               THEN "None" ELSE @]
          /\ errorShown' = (o = "FileNotFoundError")
          /\ pc' = IF o = "FileNotFoundError" THEN "return"
                   ELSE IF o = "ParserError" THEN "raised"
                   ELSE "set_index"
    /\ UNCHANGED <<cache, defaults, inputs, calc, view>>

\* Line 14: pd.read_csv("sector_defaults.csv").  Only FileNotFoundError is
\* caught (line 15); any other exception leaves the script.
ReadPrimary ==
    /\ pc = "start"
    /\ cache = "empty"
    /\ \E o \in ReadOutcomes :
          /\ frame' = [frame EXCEPT !.tried = Append(@, PrimaryFile),
                                    !.df = IF o \in {"FileNotFoundError", "ParserError"}
                                           THEN "unset" ELSE o,
                                    !.exc = IF o \in {"FileNotFoundError", "ParserError"}
                                            THEN o ELSE ""]
          /\ pc' = IF o = "FileNotFoundError" THEN "fallback"
                   ELSE IF o = "ParserError" THEN "raised"
                   ELSE "set_index"
    /\ UNCHANGED <<cache, defaults, errorShown, inputs, calc, view>>

\* Lines 16-21: pd.read_csv("sectors_defaults.csv"); every exception is
\* caught, reported with st.error, and the function returns None.
ReadFallback ==
    /\ pc = "fallback"
    /\ \E o \in ReadOutcomes :
          IF o \in {"FileNotFoundError", "ParserError"}
          THEN /\ frame' = [frame EXCEPT !.tried = Append(@, FallbackFile),
                                         !.exc = o,
                                         !.result = "None"]
               /\ errorShown' = TRUE
               /\ pc' = "return"
          ELSE /\ frame' = [frame EXCEPT !.tried = Append(@, FallbackFile),
                                         !.exc = "",
                                         !.df = o]
               /\ errorShown' = errorShown
               /\ pc' = "set_index"
    /\ UNCHANGED <<cache, defaults, inputs, calc, view>>

\* Lines 23-25: df.set_index("sector") raises KeyError without the column.
SetIndex ==
    /\ pc = "set_index"
    /\ IF frame.df = "no_sector_column"
       THEN /\ pc' = "raised"
            /\ frame' = [frame EXCEPT !.exc = "KeyError"]
       ELSE /\ pc' = "return"
            /\ frame' = [frame EXCEPT !.result = frame.df]
    /\ UNCHANGED <<cache, defaults, errorShown, inputs, calc, view>>

\* Line 27: the call returns; the value is stored by st.cache_data and
\* bound to defaults.
Return ==
    /\ pc = "return"
    /\ defaults' = frame.result
    /\ cache' = frame.result
    /\ frame' = NoFrame
    /\ pc' = "check"
    /\ UNCHANGED <<errorShown, inputs, calc, view>>

\* Lines 30-31: st.stop() when nothing was loaded.
StopCheck ==
    /\ pc = "check"
    /\ pc' = IF defaults = "None" THEN "stopped" ELSE "sidebar"
    /\ UNCHANGED <<cache, frame, defaults, errorShown, inputs, calc, view>>

-----------------------------------------------------------------------------
(* Sidebar, lines 38-130 *)

\* Lines 42-47: sector selectbox and defaults.loc[sector]; a sector missing
\* from the table raises KeyError.
SelectSector ==
    /\ pc = "sidebar"
    /\ \E s \in Sectors :
          /\ inputs' = [inputs EXCEPT !.sector = s]
          /\ pc' = IF s \in DOMAIN Table(defaults) THEN "widgets" ELSE "raised"
    /\ UNCHANGED <<cache, frame, defaults, errorShown, calc, view>>

\* Lines 67-130: the numeric widgets, each within its min_value/max_value.
ReadInputs ==
    /\ pc = "widgets"
    /\ \E ui \in Intensities, vol \in ExportVolumes, sp \in SellingPrices,
          r \in Reductions, cx \in CapexPerPct, bps \in IncentiveBps,
          ten \in Tenors, fx \in FxRates :
          inputs' = [ sector |-> inputs.sector,
                      user_intensity |-> ui,
                      export_volume_tonnes |-> vol,
                      selling_price |-> sp,
                      reduction_pct |-> r,
                      capex_per_pct_reduction_million_eur |-> cx,
                      slb_rate_discount_bps |-> bps,
                      deal_tenor_years |-> ten,
                      EUR_to_INR_rate |-> fx ]
    /\ pc' = "core"
    /\ UNCHANGED <<cache, frame, defaults, errorShown, calc, view>>

row == Table(defaults)[inputs.sector]

\* Lines 133-191.
Calculate ==
    /\ pc = "core"
    /\ calc' = CoreCalculations(row, inputs)
    /\ pc' = "layout"
    /\ UNCHANGED <<cache, frame, defaults, errorShown, inputs, view>>

-----------------------------------------------------------------------------
(* Persona views, lines 372-681 *)

readiness_subtext(score, normal_text) ==
    IF REq(score, Zero) THEN "High Risk: CBAM cost exceeds margin" ELSE normal_text

margin_delta_class(delta) ==
    IF RLe(Zero, delta) THEN "kpi-delta-pos" ELSE "kpi-delta-neg"

coverage_class(coverage) ==
    IF RLe(R(1), coverage) THEN "kpi-delta-pos" ELSE "kpi-delta-neg"

\* Lines 381-520: persona radio on "Exporter / Manufacturer".
ExporterView ==
    /\ pc = "layout"
    /\ view' = [ persona |-> "Exporter / Manufacturer",
                 readiness_subtext |->
                     readiness_subtext(calc.readiness_score,
                                       "Resilience to EU buyer pressure"),
                 margin_delta_class |-> margin_delta_class(calc.margin_delta),
                 coverage_class |-> "",
                 payback_period |->
                     payback_period(calc.total_transition_capex_eur,
                                    calc.annual_cash_flow_gain_eur),
                 conclusion |-> "" ]
    /\ pc' = "done"
    /\ UNCHANGED <<cache, frame, defaults, errorShown, inputs, calc>>

\* Variant: the conclusion of line 607 tied to the coverage ratio.
BankerView_Conditional ==
    /\ pc = "layout"
    /\ view' = [ persona |-> "Banker / Financial Institution",
                 readiness_subtext |->
                     readiness_subtext(calc.readiness_score,
                                       "Client's resilience to CBAM shock"),
                 margin_delta_class |-> "",
                 coverage_class |-> coverage_class(calc.coverage_ratio),
                 payback_period |-> Unbound,
                 conclusion |-> IF RLe(R(1), calc.coverage_ratio)
                                THEN "bankable" ELSE "not bankable" ]
    /\ pc' = "done"
    /\ UNCHANGED <<cache, frame, defaults, errorShown, inputs, calc>>

\* Lines 523-681: persona radio on "Banker / Financial Institution".
BankerView ==
    /\ pc = "layout"
    /\ view' = [ persona |-> "Banker / Financial Institution",
                 readiness_subtext |->
                     readiness_subtext(calc.readiness_score,
                                       "Client's resilience to CBAM shock"),
                 margin_delta_class |-> "",
                 coverage_class |-> coverage_class(calc.coverage_ratio),
                 payback_period |-> Unbound,
                 conclusion |-> "bankable" ]
    /\ pc' = "done"
    /\ UNCHANGED <<cache, frame, defaults, errorShown, inputs, calc>>

\* Any widget interaction re-executes the script from the top; only the
\* st.cache_data entry survives.
Rerun ==
    /\ pc \in {"done", "stopped", "raised"}
    /\ pc' = "start"
    /\ frame' = NoFrame
    /\ defaults' = "unset"
    /\ errorShown' = FALSE
    /\ inputs' = NoInputs
    /\ calc' = NoCalc
    /\ view' = NoView
    /\ UNCHANGED cache

Next ==
    \/ CacheHit
    \/ ReadPrimary
    \/ ReadFallback
    \/ SetIndex
    \/ Return
    \/ StopCheck
    \/ SelectSector
    \/ ReadInputs
    \/ Calculate
    \/ ExporterView
    \/ BankerView
    \/ Rerun

Spec == Init /\ [][Next]_vars

-----------------------------------------------------------------------------
(* Properties *)

ExporterPersona == "Exporter / Manufacturer"
BankerPersona == "Banker / Financial Institution"
HighRiskText == "High Risk: CBAM cost exceeds margin"

\* The absolute value of a float, for rounding margins, and whether a
\* float is a normal number: finite, not zero and at least 2^-1022.
RAbs(a) == IF a[1] < 0 THEN RNeg(a) ELSE a
IsNormal(a) ==
    a[1] # 0 /\ a[2] # <<>> /\ ~IsInf(a) /\ BBitLen(a[2]) + a[3] > EMin + 52

\* C1 as stated: after the calculation layer has run, excess_intensity, excess_after
\* and cbam_savings_total are non-negative and readiness_score lies in
\* [0, 100].
C1_FloorsAndClamp ==
    calc.computed =>
        /\ RLe(Zero, calc.excess_intensity)
        /\ RLe(Zero, calc.excess_after)
        /\ RLe(Zero, calc.cbam_savings_total)
        /\ RLe(Zero, calc.readiness_score)
        /\ RLe(calc.readiness_score, R(100))

\* C1, the ordinary case: a run whose raw score exceeds 100, so the lower clamp acts,
\* with a positive excess before and after the reduction and positive savings.
C1_Witness ==
    /\ calc.computed
    /\ RLt(R(100), calc.score_raw)
    /\ REq(calc.readiness_score, Zero)
    /\ RLt(Zero, calc.excess_after)
    /\ RLt(calc.excess_after, calc.excess_intensity)
    /\ RLt(Zero, calc.cbam_savings_total)

\* C2: the tier is GREEN exactly when the hit is <= 5, YELLOW exactly when
\* it is > 5 and <= 15, RED exactly when it is > 15, and the display class
\* is the one of the tier.
C2_Classification ==
    calc.computed =>
        LET h == calc.cbam_hit_pct_of_price
        IN  /\ (calc.competitiveness = "GREEN - Broadly Aligned") <=> RLe(h, R(5))
            /\ (calc.competitiveness = "YELLOW - Cost Pressure")
                   <=> (RLt(R(5), h) /\ RLe(h, R(15)))
            /\ (calc.competitiveness = "RED - High Substitution Risk") <=> RLt(R(15), h)
            /\ (calc.competitiveness_class = "status-green")
                   <=> (calc.competitiveness = "GREEN - Broadly Aligned")
            /\ (calc.competitiveness_class = "status-yellow")
                   <=> (calc.competitiveness = "YELLOW - Cost Pressure")
            /\ (calc.competitiveness_class = "status-red")
                   <=> (calc.competitiveness = "RED - High Substitution Risk")

\* C2 witness: a hit of exactly 5 classified GREEN.
C2_Witness ==
    /\ calc.computed
    /\ calc.cbam_hit_pct_of_price = R(5)
    /\ calc.competitiveness = "GREEN - Broadly Aligned"
    /\ calc.competitiveness_class = "status-green"

\* The post-reduction bill and the savings the layer yields for another
\* reduction target, everything else as in the current run.
AfterAt(r) ==
    total_cbam_after(
        cbam_after_per_tonne(
            excess_after(reduced_intensity(inputs.user_intensity, r), row.eu_benchmark),
            row.ets_price),
        inputs.export_volume_tonnes)

SavingsAt(r) == cbam_savings_total(calc.total_cbam_bill, AfterAt(r))

ProbeTargets == Reductions \cup {inputs.reduction_pct + 1, 100}

\* C3 as stated: once the calculation layer has run, a larger reduction target never
\* raises total_cbam_after and never lowers cbam_savings_total;
\* total_cbam_after <= total_cbam_bill and the savings equal
\* total_cbam_bill - total_cbam_after (the floor is idle).
C3_Monotone ==
    pc = "layout" =>
        /\ RLe(calc.total_cbam_after, calc.total_cbam_bill)
        /\ calc.cbam_savings_total = RSub(calc.total_cbam_bill, calc.total_cbam_after)
        /\ \A r2 \in ProbeTargets :
              inputs.reduction_pct <= r2 =>
                  /\ RLe(AfterAt(r2), calc.total_cbam_after)
                  /\ RLe(calc.cbam_savings_total, SavingsAt(r2))

\* C3, the ordinary case: a positive target that lowers a bill without removing it.
C3_Witness ==
    /\ calc.computed
    /\ inputs.reduction_pct = 15
    /\ RLt(Zero, calc.total_cbam_after)
    /\ RLt(calc.total_cbam_after, calc.total_cbam_bill)
    /\ RLt(AfterAt(50), calc.total_cbam_after)

\* C4: coverage_ratio is 999 when annual_debt_service_eur is 0, is the
\* quotient gain / debt service when the debt service is positive, and no
\* division by zero occurs.
C4_CoverageGuard ==
    calc.computed =>
        /\ calc.annual_debt_service_eur # ZeroDivisionError
        /\ calc.coverage_ratio # ZeroDivisionError
        /\ REq(calc.annual_debt_service_eur, Zero) => calc.coverage_ratio = R(999)
        /\ RLt(Zero, calc.annual_debt_service_eur) =>
               calc.coverage_ratio
                   = RDiv(calc.annual_cash_flow_gain_eur, calc.annual_debt_service_eur)

\* C4 witness: zero capex with a positive cash-flow gain shows the sentinel.
C4_Witness ==
    /\ calc.computed
    /\ REq(calc.annual_debt_service_eur, Zero)
    /\ RLt(Zero, calc.annual_cash_flow_gain_eur)
    /\ calc.coverage_ratio = R(999)

\* C5: where payback_period is computed (exporter view) it is 0 when the
\* cash-flow gain is zero or negative, the quotient capex / gain when the
\* gain is positive, and no division by zero occurs.
C5_PaybackGuard ==
    (pc = "done" /\ view.persona = ExporterPersona) =>
        /\ view.payback_period # ZeroDivisionError
        /\ RLe(calc.annual_cash_flow_gain_eur, Zero) => REq(view.payback_period, Zero)
        /\ RLt(Zero, calc.annual_cash_flow_gain_eur) =>
               view.payback_period
                   = RDiv(calc.total_transition_capex_eur, calc.annual_cash_flow_gain_eur)

\* C5 witness: positive capex with no cash-flow gain shows a payback of 0.
C5_Witness ==
    /\ pc = "done"
    /\ view.persona = ExporterPersona
    /\ RLt(Zero, calc.total_transition_capex_eur)
    /\ REq(calc.annual_cash_flow_gain_eur, Zero)
    /\ REq(view.payback_period, Zero)

\* C6 as stated: with selling_price 0 the hit is 0, the tier GREEN, the
\* post-CBAM margin equal to the pre-CBAM margin and the readiness 100;
\* with selling_price > 0 the hit is cost / price * 100.
C6_ZeroPriceKeepsMargin ==
    calc.computed =>
        /\ calc.cbam_hit_pct_of_price # ZeroDivisionError
        /\ REq(inputs.selling_price, Zero) =>
               /\ REq(calc.cbam_hit_pct_of_price, Zero)
               /\ calc.competitiveness = "GREEN - Broadly Aligned"
               /\ calc.post_margin_pct = calc.pre_margin_pct
               /\ calc.readiness_score = R(100)
        /\ RLt(Zero, inputs.selling_price) =>
               calc.cbam_hit_pct_of_price
                   = RMul(RDiv(calc.cbam_cost_per_tonne_calc, inputs.selling_price),
                          R(100))

\* C6 with the floor of line 151 taken into account: as above, except that
\* with selling_price 0 the post-CBAM margin is the pre-CBAM margin floored
\* at 0 (the pre-CBAM margin itself when that is non-negative).
C6_ZeroPriceGuard ==
    calc.computed =>
        /\ calc.cbam_hit_pct_of_price # ZeroDivisionError
        /\ REq(inputs.selling_price, Zero) =>
               /\ REq(calc.cbam_hit_pct_of_price, Zero)
               /\ calc.competitiveness = "GREEN - Broadly Aligned"
               /\ calc.post_margin_pct = RMax(calc.pre_margin_pct, Zero)
               /\ RLe(Zero, calc.pre_margin_pct) =>
                      calc.post_margin_pct = calc.pre_margin_pct
               /\ calc.readiness_score = R(100)
        /\ RLt(Zero, inputs.selling_price) =>
               calc.cbam_hit_pct_of_price
                   = RMul(RDiv(calc.cbam_cost_per_tonne_calc, inputs.selling_price),
                          R(100))

\* C6: a reachable run with a zero selling price, a positive per-tonne
\* cost and a negative reference margin.
C6_Witness ==
    /\ calc.computed
    /\ REq(inputs.selling_price, Zero)
    /\ RLt(Zero, calc.cbam_cost_per_tonne_calc)
    /\ REq(calc.cbam_hit_pct_of_price, Zero)
    /\ RLt(calc.pre_margin_pct, Zero)
    /\ REq(calc.post_margin_pct, Zero)
    /\ calc.readiness_score = R(100)

\* C7: whenever readiness_score is 0, and whenever a persona view shows the
\* high-risk text, the CBAM hit is at least the pre-CBAM margin and the
\* post-CBAM margin is 0.
C7_ZeroScoreMeansMarginExhausted ==
    /\ (calc.computed /\ REq(calc.readiness_score, Zero)) =>
           /\ RLe(calc.pre_margin_pct, calc.cbam_hit_pct_of_price)
           /\ REq(calc.post_margin_pct, Zero)
    /\ (pc = "done" /\ view.readiness_subtext = HighRiskText) =>
           /\ RLe(calc.pre_margin_pct, calc.cbam_hit_pct_of_price)
           /\ REq(calc.post_margin_pct, Zero)

\* A run whose load_defaults call failed: it returned None or raised.
LoadFailed ==
    \/ frame.result = "None"
    \/ defaults = "None"
    \/ (pc = "raised" /\ frame.tried # <<>>)

\* C8, the part that holds: no run is at the sector lookup, the widgets, the calculation layer
\* or a persona view without a loaded table; a run whose load returned None
\* ends at st.stop() with the st.error message on the page, and a run that
\* stopped or raised has read no numeric input, computed no derived value
\* and rendered no view.
C8_NoRunWithoutReferenceData ==
    /\ pc \in {"sidebar", "widgets", "core", "layout", "done"} =>
           defaults \in TableNames
    /\ defaults = "None" => (pc \in {"check", "stopped"} /\ errorShown)
    /\ LoadFailed => (inputs = NoInputs /\ calc = NoCalc /\ view = NoView)
    /\ pc \in {"stopped", "raised"} =>
           /\ inputs \in {NoInputs, [NoInputs EXCEPT !.sector = "steel"],
                          [NoInputs EXCEPT !.sector = "aluminium"]}
           /\ calc = NoCalc
           /\ view = NoView
    /\ pc = "stopped" => (defaults = "None" /\ errorShown)

\* C8 as stated: in addition, every run that ended without reference data,
\* whether the table could not be located or could not be parsed or
\* indexed, has an error message of the program on the page.
C8_ErrorSurfacedAndHalted ==
    /\ C8_NoRunWithoutReferenceData
    /\ pc \in {"stopped", "raised"} => errorShown

\* C8, the handled case: both files unreadable, the run halted at st.stop().
C8_Witness ==
    /\ pc = "stopped"
    /\ defaults = "None"
    /\ errorShown
    /\ inputs = NoInputs
    /\ calc = NoCalc

\* C9 as stated: whenever the load fails, both file names have been tried.
C9_FallbackOnAnyFailure ==
    LoadFailed /\ frame.tried # <<>> => frame.tried = <<PrimaryFile, FallbackFile>>

\* C9 amended: the fallback name is tried exactly when the primary file is
\* not found (FileNotFoundError); None is returned, with the st.error
\* message, only after both names were tried; a primary file that exists
\* but cannot be parsed or indexed raises without the fallback being tried;
\* the frame read from the fallback is the one returned; no name is tried
\* twice.
C9_SingleFallback ==
    /\ frame.tried \in {<<>>, <<PrimaryFile>>, <<PrimaryFile, FallbackFile>>}
    /\ pc = "fallback" =>
           (frame.tried = <<PrimaryFile>> /\ frame.exc = "FileNotFoundError")
    /\ frame.result = "None" =>
           (frame.tried = <<PrimaryFile, FallbackFile>> /\ errorShown)
    /\ (pc = "raised" /\ frame.tried = <<PrimaryFile>>) =>
           frame.exc \in {"ParserError", "KeyError"}
    /\ (pc \in {"set_index", "return", "raised"} /\ frame.tried = <<PrimaryFile>>) =>
           frame.exc # "FileNotFoundError"
    /\ (pc = "return" /\ frame.result # "None") =>
           (frame.result = frame.df /\ frame.df \in TableNames)

\* C9 witness: the primary file missing, the fallback read and returned.
C9_Witness ==
    /\ pc = "return"
    /\ frame.tried = <<PrimaryFile, FallbackFile>>
    /\ frame.result \in TableNames

\* C10 as stated: at the end of a run under either persona every derived
\* output, the payback period included, has been computed.
C10_AllOutputsEitherPersona ==
    pc = "done" =>
        /\ calc.computed
        /\ calc = CoreCalculations(row, inputs)
        /\ view.payback_period # Unbound

\* C10, the part that holds: under either persona the outputs of the calculation layer
\* (annual debt service, cash-flow gain and coverage ratio included) are
\* computed from the inputs alone and left untouched by the persona branch;
\* payback_period is computed in the exporter view only.
C10_PersonaFrame ==
    pc = "done" =>
        /\ calc.computed
        /\ calc = CoreCalculations(row, inputs)
        /\ view.persona \in {ExporterPersona, BankerPersona}
        /\ (view.persona = ExporterPersona) <=> (view.payback_period # Unbound)

\* C10, the failing case: a banker run with a positive finance relief, a coverage
\* ratio as the layer computed it, and no payback period.
C10_Witness ==
    /\ pc = "done"
    /\ view.persona = BankerPersona
    /\ RLt(Zero, calc.annual_finance_relief_estimate_eur)
    /\ RLt(Zero, calc.cbam_savings_total)
    /\ view.coverage_class = "kpi-delta-pos"
    /\ view.payback_period = Unbound

\* C11: margin_delta is never positive and post_margin_pct never negative,
\* so the exporter view styles the margin KPI positive only when
\* margin_delta is exactly 0.
C11_MarginNeverImproves ==
    /\ calc.computed =>
           /\ RLe(calc.margin_delta, Zero)
           /\ RLe(Zero, calc.post_margin_pct)
           /\ RLe(calc.post_margin_pct, calc.pre_margin_pct)
    /\ (pc = "done" /\ view.persona = ExporterPersona) =>
           ((view.margin_delta_class = "kpi-delta-pos") <=> (REq(calc.margin_delta, Zero)))

\* C12: excess_intensity is plant intensity minus the EU benchmark floored
\* at 0, the total bill is excess * ets_price * export volume and the INR
\* bill is the bill times the FX rate; the bill is 0 when the plant is at or
\* below the benchmark, and intensity 2.0, benchmark 1.0, ETS price 80 and
\* volume 10,000 give excess 1.0, per-tonne cost 80 and a bill of 800,000.
C12_Exposure ==
    calc.computed =>
        /\ RLe(inputs.user_intensity, calc.eu_benchmark) =>
               (REq(calc.excess_intensity, Zero) /\ REq(calc.total_cbam_bill, Zero))
        /\ RLt(calc.eu_benchmark, inputs.user_intensity) =>
               /\ calc.excess_intensity = RSub(inputs.user_intensity, calc.eu_benchmark)
               /\ RLt(Zero, calc.excess_intensity)
        /\ calc.cbam_cost_per_tonne_calc = RMul(calc.excess_intensity, calc.ets_price)
        /\ calc.total_cbam_bill =
               RMul(RMul(calc.excess_intensity, calc.ets_price),
                    inputs.export_volume_tonnes)
        /\ calc.total_cbam_bill_inr =
               RMul(calc.total_cbam_bill, inputs.EUR_to_INR_rate)
        /\ ( /\ inputs.user_intensity = R(2)
             /\ calc.eu_benchmark = R(1)
             /\ calc.ets_price = R(80)
             /\ inputs.export_volume_tonnes = R(10000) ) =>
               /\ calc.excess_intensity = R(1)
               /\ calc.cbam_cost_per_tonne_calc = R(80)
               /\ calc.total_cbam_bill = R(800000)

\* C12 witness: the scenario of the specification.
C12_Witness ==
    /\ calc.computed
    /\ inputs.user_intensity = R(2)
    /\ calc.eu_benchmark = R(1)
    /\ calc.ets_price = R(80)
    /\ inputs.export_volume_tonnes = R(10000)
    /\ calc.total_cbam_bill = R(800000)
    /\ calc.total_cbam_bill_inr = R(70800000)

\* C13 as stated: the capex in millions is capex per percent times the reduction
\* target (0 for a zero target, 120 for 8.0 and 15%), the capex in EUR is
\* 1,000,000 times that, and the annual finance relief is incentive bps /
\* 10,000 times the capex in EUR, 0 when the capex or the incentive is 0.
C13_FinanceSizing ==
    calc.computed =>
        /\ calc.total_transition_capex_million_eur =
               RMul(inputs.capex_per_pct_reduction_million_eur,
                    R(inputs.reduction_pct))
        /\ inputs.reduction_pct = 0 => REq(calc.total_transition_capex_million_eur, Zero)
        /\ (inputs.capex_per_pct_reduction_million_eur = R(8)
                /\ inputs.reduction_pct = 15) =>
               calc.total_transition_capex_million_eur = R(120)
        /\ calc.total_transition_capex_eur =
               RMul(calc.total_transition_capex_million_eur, R(1000000))
        /\ calc.annual_finance_relief_estimate_eur =
               RMul(RDiv(R(inputs.slb_rate_discount_bps), R(10000)),
                    calc.total_transition_capex_eur)
        /\ (REq(calc.total_transition_capex_eur, Zero) \/ inputs.slb_rate_discount_bps = 0)
               => REq(calc.annual_finance_relief_estimate_eur, Zero)

\* C13, the ordinary case: 8.0 per percent at 15% with a 75 bps incentive: 120
\* million, 120,000,000 EUR and a relief of 900,000 EUR.
C13_Witness ==
    /\ calc.computed
    /\ inputs.capex_per_pct_reduction_million_eur = R(8)
    /\ inputs.reduction_pct = 15
    /\ inputs.slb_rate_discount_bps = 75
    /\ calc.total_transition_capex_million_eur = R(120)
    /\ calc.total_transition_capex_eur = R(120000000)
    /\ calc.annual_finance_relief_estimate_eur = R(900000)

\* C14 as stated: in a run that computes both (exporter view), with
\* positive capex and positive cash-flow gain, coverage_ratio *
\* payback_period equals the loan tenor, so the coverage ratio is >= 1 (the
\* class the banker view would style positive) exactly when the payback
\* period is within the tenor.
C14_CoverageTimesPayback ==
    ( /\ pc = "done"
      /\ view.persona = ExporterPersona
      /\ RLt(Zero, calc.total_transition_capex_eur)
      /\ RLt(Zero, calc.annual_cash_flow_gain_eur)
      /\ inputs.deal_tenor_years >= 1 ) =>
        /\ RMul(calc.coverage_ratio, view.payback_period) = R(inputs.deal_tenor_years)
        /\ RLe(R(1), calc.coverage_ratio)
               <=> RLe(view.payback_period, R(inputs.deal_tenor_years))
        /\ (coverage_class(calc.coverage_ratio) = "kpi-delta-pos")
               <=> RLe(view.payback_period, R(inputs.deal_tenor_years))

\* C14 amended: in such a run, when the capex, the debt service, the gain,
\* the two quotients and their product are normal numbers (no overflow, no
\* subnormal), the float product coverage_ratio * payback_period lies within a relative 2^-50 of the loan tenor (the two
\* quotients and the debt service are each rounded); a coverage ratio >= 1
\* comes with a payback period of at most tenor * (1 + 2^-50), a payback
\* period within the tenor with a coverage ratio of at least 1 - 2^-50, and
\* the debt metric is styled positive exactly when the coverage ratio is >= 1.
C14_CoverageTimesPaybackRounded ==
    ( /\ pc = "done"
      /\ view.persona = ExporterPersona
      /\ RLt(Zero, calc.total_transition_capex_eur)
      /\ RLt(Zero, calc.annual_cash_flow_gain_eur)
      /\ inputs.deal_tenor_years >= 1
      /\ IsNormal(calc.total_transition_capex_eur)
      /\ IsNormal(calc.annual_debt_service_eur)
      /\ IsNormal(calc.annual_cash_flow_gain_eur)
      /\ IsNormal(calc.coverage_ratio)
      /\ IsNormal(view.payback_period)
      /\ IsNormal(RMul(calc.coverage_ratio, view.payback_period)) ) =>
        LET tenor == R(inputs.deal_tenor_years)
        IN  /\ RLe(RAbs(RSub(RMul(calc.coverage_ratio, view.payback_period), tenor)),
                   RMul(TwoTo(-50), tenor))
            /\ RLe(R(1), calc.coverage_ratio) =>
                   RLe(view.payback_period, RMul(tenor, RAdd(R(1), TwoTo(-50))))
            /\ RLe(view.payback_period, tenor) =>
                   RLe(RSub(R(1), TwoTo(-50)), calc.coverage_ratio)
            /\ (coverage_class(calc.coverage_ratio) = "kpi-delta-pos")
                   <=> RLe(R(1), calc.coverage_ratio)

\* C14 witness: a 20-year loan paid back within its tenor, coverage above
\* 1, the product of the two rounded off the tenor.
C14_Witness ==
    /\ pc = "done"
    /\ view.persona = ExporterPersona
    /\ RLt(Zero, calc.total_transition_capex_eur)
    /\ inputs.deal_tenor_years = 20
    /\ RLt(R(1), calc.coverage_ratio)
    /\ RLt(R(1), view.payback_period)
    /\ RLt(view.payback_period, R(20))
    /\ RMul(calc.coverage_ratio, view.payback_period) # R(20)

\* C15: every banker run renders the "bankable" conclusion whatever the
\* coverage ratio, while the coverage indicator is styled positive exactly
\* when coverage_ratio >= 1 and negative otherwise (a nan ratio included).
C15_BankableAlways ==
    (pc = "done" /\ view.persona = BankerPersona) =>
        /\ view.conclusion = "bankable"
        /\ (view.coverage_class = "kpi-delta-pos") <=> RLe(R(1), calc.coverage_ratio)
        /\ (view.coverage_class = "kpi-delta-neg") <=> ~RLe(R(1), calc.coverage_ratio)

\* C15 witness: a banker run with a loan to service, a coverage ratio below
\* 1 styled negative, and the bankable conclusion on the page.
C15_Witness ==
    /\ pc = "done"
    /\ view.persona = BankerPersona
    /\ RLt(Zero, calc.annual_debt_service_eur)
    /\ RLt(calc.coverage_ratio, R(1))
    /\ view.coverage_class = "kpi-delta-neg"
    /\ view.conclusion = "bankable"

\* C16 as stated: with a non-negative pre-CBAM margin, score_raw is 2 * hit
\* plus 5 * min(hit, pre-margin), at most 7 * hit, so a GREEN
\* classification (hit <= 5) comes with a readiness score of at least 65.
C16_GreenImpliesReady ==
    (calc.computed /\ RLe(Zero, calc.pre_margin_pct)) =>
        /\ calc.score_raw =
               RAdd(RMul(R(2), calc.cbam_hit_pct_of_price),
                    RMul(R(5), RMin(calc.cbam_hit_pct_of_price, calc.pre_margin_pct)))
        /\ RLe(calc.score_raw, RMul(R(7), calc.cbam_hit_pct_of_price))
        /\ calc.competitiveness = "GREEN - Broadly Aligned" =>
               RLe(R(65), calc.readiness_score)

\* C16 amended: with a pre-CBAM margin in [0, 2^53), where floats are at
\* most 1 apart, score_raw is 2 * hit plus 5 * (pre-margin - post-margin),
\* and a GREEN classification (hit <= 5) comes with an erosion pre-margin -
\* post-margin of at most 5, score_raw <= 35 and a readiness score of at
\* least 65.
C16_GreenImpliesReadyRounded ==
    ( /\ calc.computed
      /\ RLe(Zero, calc.pre_margin_pct)
      /\ RLt(calc.pre_margin_pct, TwoTo(53)) ) =>
        /\ calc.score_raw =
               RAdd(RMul(calc.cbam_hit_pct_of_price, R(2)),
                    RMul(RSub(calc.pre_margin_pct, calc.post_margin_pct), R(5)))
        /\ calc.competitiveness = "GREEN - Broadly Aligned" =>
               /\ RLe(RSub(calc.pre_margin_pct, calc.post_margin_pct), R(5))
               /\ RLe(calc.score_raw, R(35))
               /\ RLe(R(65), calc.readiness_score)

\* C16 beyond 2^53: a run classified GREEN on a margin of 2^53 + 6, where
\* the subtraction of the hit rounds to 2^53, the erosion is 6 and the
\* readiness score 60.
C16_WideMarginBelow65 ==
    /\ calc.computed
    /\ RLe(TwoTo(53), calc.pre_margin_pct)
    /\ calc.cbam_hit_pct_of_price = R(5)
    /\ calc.competitiveness = "GREEN - Broadly Aligned"
    /\ RSub(calc.pre_margin_pct, calc.post_margin_pct) = R(6)
    /\ calc.readiness_score = R(60)

\* C16 witness: the tight case, a hit of exactly 5 within the margin,
\* classified GREEN with a readiness score of exactly 65.
C16_Witness ==
    /\ calc.computed
    /\ calc.cbam_hit_pct_of_price = R(5)
    /\ RLe(R(5), calc.pre_margin_pct)
    /\ RLt(calc.pre_margin_pct, TwoTo(53))
    /\ calc.competitiveness = "GREEN - Broadly Aligned"
    /\ calc.readiness_score = R(65)

\* C16, the untied end: a run classified RED whose readiness score is
\* above 0.
C16_RedAboveZero ==
    /\ calc.computed
    /\ RLe(Zero, calc.pre_margin_pct)
    /\ calc.competitiveness = "RED - High Substitution Risk"
    /\ RLt(Zero, calc.readiness_score)

=============================================================================
